---- MODULE Spec2Model ----
(***************************************************************************)
(* Model of fast-rec-feed: the in-memory feed store (Storage), the         *)
(* fallback pool (FixedStorage) and the blending service (FeedService).    *)
(*                                                                         *)
(* Every request runs in a goroutine of its own ("caller").  A caller's    *)
(* position in the code is pc[c]; its local variables are loc[c].  Each    *)
(* access to state shared between goroutines (the offsets sync.Map, the    *)
(* feeds map, the numExceed and errsCount atomics) is a step of its own,   *)
(* so that every interleaving Go's scheduler can produce is a behaviour.   *)
(*                                                                         *)
(* The sizes are scaled down: TotalFeedSize is 200 in the source, the      *)
(* golden pool has 50 items and a request size is a uint8.  The model      *)
(* keeps their relations: a size may exceed TotalFeedSize, a feed may hold *)
(* more distinct ids than the pool has items, ids of a feed may or may not *)
(* be ids of the pool.                                                     *)
(***************************************************************************)
EXTENDS Integers, Sequences, FiniteSets, TLC

\* ------------------------------------------------------------------ bounds
\* feed.TotalFeedSize (200 in service.go), scaled down.
TotalFeedSize == 3
\* feed.defailtNextFeedSize (10 in service.go), scaled down.
defailtNextFeedSize == 2
\* The largest request size (a uint8 in the source: larger than a feed).
MaxSize == 4
\* The largest fallback pool (50 items in NewGoldenFixedStorage).
MaxPool == 2
\* The longest excludeItems handed directly to RandomFeed.
MaxExclude == 3
\* Requests started in one behaviour: concurrent ones, sequential GetNextFeed
\* calls.  SetFeed calls in one behaviour.
MaxCalls == 2
MaxSeqCalls == 4
MaxSets == 2
\* SetFeed calls in one behaviour of the service's specification.
MaxServiceSets == 1
\* GetNextFeed calls in one behaviour of the running server.
MaxServeCalls == 3

\* The goroutines serving requests, and the user ids.
Callers == {1, 2}
Users == {1, 2}
Sizes == 0..MaxSize

Min(a, b) == IF a < b THEN a ELSE b

RECURSIVE SeqsUpTo(_, _)
SeqsUpTo(S, n) ==
    IF n = 0 THEN {<<>>}
    ELSE LET shorter == SeqsUpTo(S, n - 1)
         IN  shorter \cup {Append(s, x) : s \in {t \in shorter : Len(t) = n - 1}, x \in S}

Range(s) == {s[j] : j \in 1..Len(s)}

\* ------------------------------------------------------------------ inputs
\* A pool of n distinct ids, as NewGoldenFixedStorage builds it: 1..n.
PoolOf(n) == [j \in 1..n |-> j]
Pools == {PoolOf(n) : n \in 0..MaxPool}

\* Feeds as updater.UpdateFeed draws them: ids from 1 up, repeats allowed.
\* FreshFeed holds ids above every pool id, all distinct; MixedFeed holds pool
\* ids and repeats one.
FreshFeed == [j \in 1..TotalFeedSize |-> 10 + j]
MixedFeed == [j \in 1..TotalFeedSize |-> 1 + (j % 2)]
FeedInputs == {FreshFeed, MixedFeed}

\* Ids handed to RandomFeed as excludeItems: pool members and others.
ExcludeIds == 1..(MaxPool + 2)
ExcludeInputs == SeqsUpTo(ExcludeIds, MaxExclude)

\* ------------------------------------------------------------------- state
VARIABLES
    pool,       \* FixedStorage: the fallback pool, read-only
    feeds,      \* Storage.feeds: map userId -> feed
    offsets,    \* Storage.offsets: sync.Map userId -> offset
    numExceed,  \* Storage.numExceed
    errsCount,  \* the error sink's counter
    pc,         \* each caller's position
    req,        \* each caller's request
    loc,        \* each caller's local variables
    upd,        \* the goroutine running SetFeed
    ret,        \* what each caller's last completed call returned
    concat,     \* per user: the slices GetNextFeed returned since SetFeed, joined
    sumSizes,   \* per user: the sizes asked of GetNextFeed since SetFeed, summed
    dirty,      \* per user: a call that overlapped SetFeed has completed
    started,    \* per user: a call has started since SetFeed returned
    nCalls,     \* requests started
    nSets       \* SetFeed calls started

vars == <<pool, feeds, offsets, numExceed, errsCount, pc, req, loc, upd, ret,
          concat, sumSizes, dirty, started, nCalls, nSets>>

storeVars == <<feeds, offsets, numExceed>>
servedVars == <<concat, sumSizes, dirty>>
histVars == <<concat, sumSizes, dirty, started>>

\* What GetPercentileExceed has read and computed, and what it found as it
\* started: the counter and the number of users with a feed.
NoGpe == [count |-> 0, fraction |-> [kind |-> "none", num |-> 0, den |-> 1],
          counter |-> 0, users |-> 0]

NoReq == [op |-> "none", userId |-> 0, size |-> 0, asked |-> 0, excludeItems |-> <<>>]

InitLoc == [offset |-> 0, lastItem |-> 0, persFeed |-> <<>>, err |-> "nil",
            primary |-> <<>>, ranged |-> FALSE,
            randomFeedSize |-> 0, rfSize |-> 0, rfExclude |-> <<>>,
            excluded |-> {}, result |-> <<>>, i |-> 0, rfRet |-> <<>>,
            errs |-> <<>>, taint |-> FALSE,
            cursor |-> 0, first |-> FALSE, adds |-> 0, stored |-> FALSE,
            gpe |-> NoGpe]

NoRet == [op |-> "none", userId |-> 0, size |-> 0, asked |-> 0, excludeItems |-> <<>>,
          items |-> <<>>, err |-> "nil", lo |-> 0, hi |-> 0, ranged |-> FALSE,
          primary |-> <<>>, gnfErr |-> "nil", combined |-> <<>>, fallback |-> <<>>,
          rfSize |-> 0, errs |-> <<>>, taint |-> FALSE,
          cursor |-> 0, first |-> FALSE, adds |-> 0, stored |-> FALSE,
          gpe |-> NoGpe]

IdleUpd == [pc |-> "idle", userId |-> 0, items |-> <<>>]

\* NewStorage, NewDummyMetrics and a FixedStorage: an empty store, no request.
Init ==
    /\ pool \in Pools
    /\ feeds = <<>>
    /\ offsets = <<>>
    /\ numExceed = 0
    /\ errsCount = 0
    /\ pc = [c \in Callers |-> "idle"]
    /\ req = [c \in Callers |-> NoReq]
    /\ loc = [c \in Callers |-> InitLoc]
    /\ upd = IdleUpd
    /\ ret = [c \in Callers |-> NoRet]
    /\ concat = [u \in Users |-> <<>>]
    /\ sumSizes = [u \in Users |-> 0]
    /\ dirty = [u \in Users |-> FALSE]
    /\ started = [u \in Users |-> FALSE]
    /\ nCalls = 0
    /\ nSets = 0


\* ------------------------------------------------------- Storage (the store)
InGNF(c) == pc[c] \in {"gnf_load", "gnf_exceed", "gnf_feeds", "gnf_store"}

\* SetFeed is running for user u.
Setting(u) == upd.pc # "idle" /\ upd.userId = u

\* SetFeed is writing the feeds map: a plain Go map, which no lock guards.
Writing == upd.pc = "write"

\* The Go runtime has ended the process: fatal error, concurrent map read and
\* map write.
Crashed == upd.pc = "crashed"

\* A store with one cursor for all users: a write sets every key.
MapStoreShared(m, k, v) == [x \in (DOMAIN m) \cup {k} |-> v]

\* m[k] = v in a Go map or a sync.Map: the key is added or overwritten.
MapStore(m, k, v) == [x \in (DOMAIN m) \cup {k} |-> IF x = k THEN v ELSE m[x]]

\* offsets.Load(userId), and the zero value when the key is absent.
LoadOffset(userId) == IF userId \in DOMAIN offsets THEN offsets[userId] ELSE 0

\* min(int(offset)+int(size), feed.TotalFeedSize)
LastItem(offset, size) == Min(offset + size, TotalFeedSize)

\* A slice that forgets where it starts: always the head of the feed.
SliceFromStart(feed, offset, lastItem) == SubSeq(feed, 1, lastItem - offset)

\* feed[offset:lastItem] (Go indexes from 0, a TLA+ sequence from 1).
Slice(feed, offset, lastItem) == SubSeq(feed, offset + 1, lastItem)

\* A store that writes back the offset it loaded: the cursor never advances.
StoredOffsetStale(offset, lastItem) == offset

\* The value offsets.Store writes.
StoredOffset(offset, lastItem) == lastItem

SatAdd(a, b) == Min(a + b, TotalFeedSize + 1)

\* GetNextFeed returns (items, err) to its caller.  lo..hi is the index range
\* of items in the feed, when there is one.
GnfReturn(c, items, err, ranged, lo, hi) ==
    LET u == req[c].userId IN
    /\ loc' = [loc EXCEPT ![c].persFeed = items, ![c].err = err,
                          ![c].primary = items, ![c].ranged = ranged,
                          ![c].offset = lo, ![c].lastItem = hi,
                          ![c].stored = (pc[c] = "gnf_store")]
    /\ pc' = [pc EXCEPT ![c] = "gnf_return"]
    /\ concat' = [concat EXCEPT ![u] = @ \o items]
    /\ sumSizes' = [sumSizes EXCEPT ![u] = SatAdd(@, req[c].size)]
    /\ dirty' = [dirty EXCEPT ![u] = @ \/ loc[c].taint]
    /\ UNCHANGED started

\* The locals of a call of GetNextFeed as it starts, with what the call finds:
\* whether SetFeed is running for the user, the user's cursor, and whether it
\* is the first call to start since a SetFeed for the user returned (first
\* stays set as long as no other call for the user starts while it runs).
StartLoc(userId) ==
    [InitLoc EXCEPT !.taint = Setting(userId),
                    !.cursor = LoadOffset(userId),
                    !.first = ~Setting(userId) /\ userId \in DOMAIN feeds
                              /\ ~started[userId]]

\* Every caller's locals as caller c starts a call for userId: a call for the
\* user that is running is no longer the only one started since SetFeed.
StartLocs(c, userId) ==
    [x \in Callers |->
        IF x = c THEN StartLoc(userId)
        ELSE IF req[x].userId = userId THEN [loc[x] EXCEPT !.first = FALSE]
        ELSE loc[x]]

\* A caller starts GetNextFeed(userId, size) directly.
NextFeedCall(c, userId, size) ==
    /\ pc[c] = "idle"
    /\ nCalls' = nCalls + 1
    /\ req' = [req EXCEPT ![c] = [op |-> "nextFeed", userId |-> userId, size |-> size,
                                  asked |-> size, excludeItems |-> <<>>]]
    /\ loc' = StartLocs(c, userId)
    /\ pc' = [pc EXCEPT ![c] = "gnf_load"]
    /\ ret' = [ret EXCEPT ![c] = NoRet]
    /\ started' = [started EXCEPT ![userId] = TRUE]
    /\ UNCHANGED <<pool, storeVars, errsCount, upd, servedVars, nSets>>

\* part_000 lines 25-34: load the offset; nothing left to deliver returns nil, nil.
GnfLoad(c) ==
    /\ pc[c] = "gnf_load"
    /\ LET offset == LoadOffset(req[c].userId) IN
         IF offset >= TotalFeedSize
         THEN GnfReturn(c, <<>>, "nil", TRUE, offset, offset)
         ELSE /\ loc' = [loc EXCEPT ![c].offset = offset]
              /\ pc' = [pc EXCEPT ![c] = "gnf_exceed"]
              /\ UNCHANGED histVars
    /\ UNCHANGED <<pool, storeVars, errsCount, req, upd, ret, nCalls, nSets>>

\* part_000 lines 37-40: the upper bound, and the exceed counter.
GnfExceed(c) ==
    /\ pc[c] = "gnf_exceed"
    /\ LET lastItem == LastItem(loc[c].offset, req[c].size) IN
         /\ loc' = [loc EXCEPT ![c].lastItem = lastItem,
                               ![c].adds = IF lastItem >= TotalFeedSize THEN 1 ELSE 0]
         /\ numExceed' = IF lastItem >= TotalFeedSize THEN numExceed + 1 ELSE numExceed
    /\ pc' = [pc EXCEPT ![c] = "gnf_feeds"]
    /\ UNCHANGED <<pool, feeds, offsets, errsCount, req, upd, ret, histVars, nCalls, nSets>>

\* part_000 lines 43-47: look the feed up; no feed is an error; slice it.
GnfFeeds(c) ==
    /\ pc[c] = "gnf_feeds"
    /\ ~Writing
    /\ IF req[c].userId \notin DOMAIN feeds
       THEN GnfReturn(c, <<>>, "notfound", FALSE, 0, 0)
       ELSE /\ loc' = [loc EXCEPT ![c].persFeed =
                          Slice(feeds[req[c].userId], loc[c].offset, loc[c].lastItem)]
            /\ pc' = [pc EXCEPT ![c] = "gnf_store"]
            /\ UNCHANGED histVars
    /\ UNCHANGED <<pool, storeVars, errsCount, req, upd, ret, nCalls, nSets>>

\* The zero value of a feed array.
ZeroFeed == [j \in 1..TotalFeedSize |-> 0]

\* What the lookup of line 43 can yield while SetFeed's write of line 55 is
\* under way, a data race: the key with a value of which every element is the
\* old one (zero for a new key) or the one being written, or no key when there
\* was none.
RacyLookups(userId) ==
    LET present == userId \in DOMAIN feeds
        written == upd.userId = userId
        old == IF present THEN feeds[userId] ELSE ZeroFeed
        new == IF written THEN upd.items ELSE old
    IN  {[ok |-> TRUE, feed |-> f] :
            f \in {g \in [1..TotalFeedSize -> Range(old) \cup Range(new)] :
                     (present \/ written)
                     /\ \A j \in 1..TotalFeedSize : g[j] \in {old[j], new[j]}}}
        \cup (IF present THEN {} ELSE {[ok |-> FALSE, feed |-> ZeroFeed]})

\* part_000 lines 43-47, racing with line 55: the lookup yields one of the
\* values the race can produce.
GnfFeedsRace(c) ==
    /\ pc[c] = "gnf_feeds"
    /\ Writing
    /\ \E lookup \in RacyLookups(req[c].userId) :
          IF ~lookup.ok
          THEN GnfReturn(c, <<>>, "notfound", FALSE, 0, 0)
          ELSE /\ loc' = [loc EXCEPT ![c].persFeed =
                             Slice(lookup.feed, loc[c].offset, loc[c].lastItem)]
               /\ pc' = [pc EXCEPT ![c] = "gnf_store"]
               /\ UNCHANGED histVars
    /\ UNCHANGED <<pool, storeVars, errsCount, req, upd, ret, nCalls, nSets>>

\* part_000 line 43 racing with line 55: the runtime detects the concurrent
\* map read and map write and ends the process.
MapRaceCrash(c) ==
    /\ pc[c] = "gnf_feeds"
    /\ Writing
    /\ pc' = [x \in Callers |-> "crashed"]
    /\ upd' = [upd EXCEPT !.pc = "crashed"]
    /\ UNCHANGED <<pool, storeVars, errsCount, req, loc, ret, histVars, nCalls, nSets>>

\* part_000 lines 50-51: store the new offset and return the slice.
GnfStore(c) ==
    /\ pc[c] = "gnf_store"
    /\ offsets' = MapStore(offsets, req[c].userId,
                           StoredOffset(loc[c].offset, loc[c].lastItem))
    /\ GnfReturn(c, loc[c].persFeed, "nil", TRUE, loc[c].offset, loc[c].lastItem)
    /\ UNCHANGED <<pool, feeds, numExceed, errsCount, req, upd, ret, nCalls, nSets>>

\* The result handed back by a call.
RetOf(c, items, err) ==
    [op |-> req[c].op, userId |-> req[c].userId, size |-> req[c].size,
     asked |-> req[c].asked, excludeItems |-> req[c].excludeItems,
     items |-> items, err |-> err,
     lo |-> loc[c].offset, hi |-> loc[c].lastItem, ranged |-> loc[c].ranged,
     primary |-> loc[c].primary, gnfErr |-> loc[c].err,
     combined |-> loc[c].persFeed, fallback |-> loc[c].rfRet,
     rfSize |-> loc[c].rfSize, errs |-> loc[c].errs, taint |-> loc[c].taint,
     cursor |-> loc[c].cursor, first |-> loc[c].first, adds |-> loc[c].adds,
     stored |-> loc[c].stored, gpe |-> loc[c].gpe]

Finish(c, items, err) ==
    /\ ret' = [ret EXCEPT ![c] = RetOf(c, items, err)]
    /\ pc' = [pc EXCEPT ![c] = "idle"]
    /\ req' = [req EXCEPT ![c] = NoReq]
    /\ loc' = [loc EXCEPT ![c] = InitLoc]

\* The direct caller of GetNextFeed has its result.
NextFeedReturn(c) ==
    /\ pc[c] = "gnf_return"
    /\ req[c].op = "nextFeed"
    /\ Finish(c, loc[c].persFeed, loc[c].err)
    /\ UNCHANGED <<pool, storeVars, errsCount, upd, histVars, nCalls, nSets>>

\* float64(a) / float64(b): a quotient, kept as the pair it is of; dividing by
\* zero is no error in floating point and yields NaN for 0/0, +Inf otherwise.
FloatDiv(a, b) ==
    IF b # 0 THEN [kind |-> "finite", num |-> a, den |-> b]
    ELSE IF a = 0 THEN [kind |-> "NaN", num |-> a, den |-> b]
    ELSE [kind |-> "+Inf", num |-> a, den |-> b]

\* len(s.feeds)
LenFeeds == Cardinality(DOMAIN feeds)

\* A caller starts GetPercentileExceed().
PercentileCall(c) ==
    /\ pc[c] = "idle"
    /\ nCalls' = nCalls + 1
    /\ req' = [req EXCEPT ![c] = [NoReq EXCEPT !.op = "percentile"]]
    /\ loc' = [loc EXCEPT ![c] = [InitLoc EXCEPT !.gpe.counter = numExceed,
                                                  !.gpe.users = LenFeeds]]
    /\ pc' = [pc EXCEPT ![c] = "gpe_count"]
    /\ ret' = [ret EXCEPT ![c] = NoRet]
    /\ UNCHANGED <<pool, storeVars, errsCount, upd, histVars, nSets>>

\* part_000 line 60: the first s.numExceed.Load(), the count returned.
GpeCount(c) ==
    /\ pc[c] = "gpe_count"
    /\ loc' = [loc EXCEPT ![c].gpe.count = numExceed]
    /\ pc' = [pc EXCEPT ![c] = "gpe_fraction"]
    /\ UNCHANGED <<pool, storeVars, errsCount, req, upd, ret, histVars, nCalls, nSets>>

\* part_000 line 60: the second s.numExceed.Load(), divided by len(s.feeds),
\* and the return.
GpeFraction(c) ==
    /\ pc[c] = "gpe_fraction"
    /\ LET done == [loc[c] EXCEPT !.gpe.fraction = FloatDiv(numExceed, LenFeeds)] IN
         /\ ret' = [ret EXCEPT ![c] = [RetOf(c, <<>>, "nil") EXCEPT !.gpe = done.gpe]]
         /\ pc' = [pc EXCEPT ![c] = "idle"]
         /\ req' = [req EXCEPT ![c] = NoReq]
         /\ loc' = [loc EXCEPT ![c] = InitLoc]
    /\ UNCHANGED <<pool, storeVars, errsCount, upd, histVars, nCalls, nSets>>

\* part_000 lines 54-55: SetFeed is called and starts writing the feed.
SetFeedBegin(userId, items) ==
    /\ upd.pc = "idle"
    /\ nSets' = nSets + 1
    /\ upd' = [pc |-> "write", userId |-> userId, items |-> items]
    /\ loc' = [c \in Callers |->
                 IF pc[c] # "idle" /\ req[c].userId = userId
                 THEN [loc[c] EXCEPT !.taint = TRUE] ELSE loc[c]]
    /\ ret' = [c \in Callers |-> IF ret[c].userId = userId THEN NoRet ELSE ret[c]]
    /\ UNCHANGED <<pool, storeVars, errsCount, pc, req, histVars, nCalls>>

\* part_000 line 55: the feed is written.
SetFeedWrite ==
    /\ upd.pc = "write"
    /\ feeds' = MapStore(feeds, upd.userId, upd.items)
    /\ upd' = [upd EXCEPT !.pc = "store"]
    /\ UNCHANGED <<pool, offsets, numExceed, errsCount, pc, req, loc, ret, histVars,
                   nCalls, nSets>>

\* part_000 line 56: SetFeed resets the offset.
SetFeedStore ==
    /\ upd.pc = "store"
    /\ offsets' = MapStore(offsets, upd.userId, 0)
    /\ upd' = IdleUpd
    /\ concat' = [concat EXCEPT ![upd.userId] = <<>>]
    /\ sumSizes' = [sumSizes EXCEPT ![upd.userId] = 0]
    /\ dirty' = [dirty EXCEPT ![upd.userId] = FALSE]
    /\ started' = [started EXCEPT ![upd.userId] = FALSE]
    /\ UNCHANGED <<pool, feeds, numExceed, errsCount, pc, req, loc, ret, nCalls, nSets>>




\* ------------------------------------------ FixedStorage (the fallback pool)
\* fixed.go lines 26-29: the excluded set starts as the set of excludeItems.
ExcludedOf(excludeItems) == Range(excludeItems)

\* fixed.go line 31: make([]uint32, size), a slice of size zeros.
MakeResult(size) == [j \in 1..size |-> 0]

\* An exhaustion check that is off by one: the loop gives up with one pool item
\* still to try.
LoopCondEarly(i, size, excluded) == i # size /\ Cardinality(excluded) + 1 # Len(pool)

\* fixed.go line 34: the sampling loop's condition.
LoopCond(i, size, excluded) == i # size /\ Cardinality(excluded) # Len(pool)

\* fixed.go line 45: the slice RandomFeed returns after i items were drawn.
RfResult(result, i) == result

\* fixed.go lines 22-32: an empty pool returns nil; else set up the loop.
RfInit(c) ==
    /\ pc[c] = "rf_init"
    /\ IF Len(pool) = 0
       THEN /\ loc' = [loc EXCEPT ![c].rfRet = <<>>]
            /\ pc' = [pc EXCEPT ![c] = "rf_return"]
       ELSE /\ loc' = [loc EXCEPT ![c].excluded = ExcludedOf(loc[c].rfExclude),
                                  ![c].result = MakeResult(loc[c].rfSize),
                                  ![c].i = 0]
            /\ pc' = [pc EXCEPT ![c] = "rf_loop"]
    /\ UNCHANGED <<pool, storeVars, errsCount, req, upd, ret, histVars, nCalls, nSets>>

\* fixed.go lines 34-43: one iteration; idx is rand.Intn(len(s)), from 1 here.
RfIter(c, idx) ==
    /\ pc[c] = "rf_loop"
    /\ LoopCond(loc[c].i, loc[c].rfSize, loc[c].excluded)
    /\ idx \in 1..Len(pool)
    /\ LET item == pool[idx] IN
         IF item \notin loc[c].excluded
         THEN loc' = [loc EXCEPT ![c].result = [@ EXCEPT ![loc[c].i + 1] = item],
                                 ![c].excluded = @ \cup {item},
                                 ![c].i = @ + 1]
         ELSE loc' = loc
    /\ UNCHANGED <<pool, storeVars, errsCount, pc, req, upd, ret, histVars, nCalls, nSets>>

\* fixed.go lines 34 and 45: the loop's condition fails; return result.
RfExit(c) ==
    /\ pc[c] = "rf_loop"
    /\ ~LoopCond(loc[c].i, loc[c].rfSize, loc[c].excluded)
    /\ loc' = [loc EXCEPT ![c].rfRet = RfResult(loc[c].result, loc[c].i)]
    /\ pc' = [pc EXCEPT ![c] = "rf_return"]
    /\ UNCHANGED <<pool, storeVars, errsCount, req, upd, ret, histVars, nCalls, nSets>>

\* The direct caller of RandomFeed has its result.
RandomFeedReturn(c) ==
    /\ pc[c] = "rf_return"
    /\ req[c].op = "random"
    /\ Finish(c, loc[c].rfRet, "nil")
    /\ UNCHANGED <<pool, storeVars, errsCount, upd, histVars, nCalls, nSets>>

\* ------------------------------------------------ FeedService (the blender)
\* service.go lines 37-39: a size of zero becomes the default.
EffectiveSize(size) == IF size = 0 THEN defailtNextFeedSize ELSE size

\* A fallback draw sized by the whole request, the primary slice forgotten.
RandomFeedSizeWhole(size, persFeed) == size % 256

\* service.go line 47: r.Size - uint8(len(persFeed)), in uint8 arithmetic.
RandomFeedSize(size, persFeed) == (size - Len(persFeed)) % 256

\* service.go line 56: the final feed is not of the requested size.
SizeMismatch(persFeed, size) == Len(persFeed) # size

\* Every size mismatch taken as fatal, whatever is left to return.
NoFeedItemsAlways(persFeed) == TRUE

\* service.go line 63: nothing at all to return.
NoFeedItems(persFeed) == Len(persFeed) = 0

\* A blend that puts the fallback draw in front.
PrependFeed(persFeed, randomFeed) == randomFeed \o persFeed

\* service.go line 52: append(persFeed, randomFeed...).
AppendFeed(persFeed, randomFeed) == persFeed \o randomFeed

\* A store that hands out slices of the stored arrays, blended in place: the
\* fallback draw is written into the user's stored feed from the slice's start.
FeedsOverwritten(userId, offset, randomFeed) ==
    IF userId \notin DOMAIN feeds THEN feeds
    ELSE [feeds EXCEPT ![userId] =
            [j \in 1..TotalFeedSize |->
                IF j > offset /\ j - offset <= Len(randomFeed)
                THEN randomFeed[j - offset] ELSE @[j]]]

\* part_000 lines 43-47 and service.go line 52: the feeds map after
\* append(persFeed, randomFeed...).  Line 43 copies the array out of the map
\* and persFeed is a slice of that copy: whatever append writes, in the copy
\* or in a new array, the stored arrays are not written.
FeedsAfterAppend(userId, offset, randomFeed) == feeds

\* service.go lines 35-43: RetrievFeed defaults the size and calls GetNextFeed.
RetrievFeedCall(c, userId, size) ==
    /\ pc[c] = "idle"
    /\ nCalls' = nCalls + 1
    /\ req' = [req EXCEPT ![c] = [op |-> "retrieve", userId |-> userId,
                                  size |-> EffectiveSize(size), asked |-> size,
                                  excludeItems |-> <<>>]]
    /\ loc' = StartLocs(c, userId)
    /\ pc' = [pc EXCEPT ![c] = "gnf_load"]
    /\ ret' = [ret EXCEPT ![c] = NoRet]
    /\ started' = [started EXCEPT ![userId] = TRUE]
    /\ UNCHANGED <<pool, storeVars, errsCount, upd, servedVars, nSets>>

\* service.go lines 44-51: record the store's error, size the fallback draw
\* and call RandomFeed when items are missing.
Blend(c) ==
    /\ pc[c] = "gnf_return"
    /\ req[c].op = "retrieve"
    /\ LET failed == loc[c].err # "nil"
           randomFeedSize == RandomFeedSize(req[c].size, loc[c].persFeed)
       IN  /\ errsCount' = IF failed THEN errsCount + 1 ELSE errsCount
           /\ loc' = [loc EXCEPT
                        ![c].errs = IF failed THEN Append(@, loc[c].err) ELSE @,
                        ![c].randomFeedSize = randomFeedSize,
                        ![c].rfSize = IF randomFeedSize > 0 THEN randomFeedSize ELSE 0,
                        ![c].rfExclude = IF randomFeedSize > 0 THEN loc[c].persFeed ELSE <<>>]
           /\ pc' = [pc EXCEPT ![c] = IF randomFeedSize > 0 THEN "rf_init" ELSE "validate"]
    /\ UNCHANGED <<pool, storeVars, req, upd, ret, histVars, nCalls, nSets>>

\* service.go lines 52-68: append the fallback draw, validate the size, return.
Validate(c) ==
    /\ pc[c] \in {"rf_return", "validate"}
    /\ req[c].op = "retrieve"
    /\ LET persFeed == IF pc[c] = "rf_return"
                       THEN AppendFeed(loc[c].persFeed, loc[c].rfRet)
                       ELSE loc[c].persFeed
           mismatch == SizeMismatch(persFeed, req[c].size)
           fatal == mismatch /\ NoFeedItems(persFeed)
           done == [loc EXCEPT ![c].persFeed = persFeed,
                               ![c].errs = IF mismatch THEN Append(@, "mismatch") ELSE @]
       IN  /\ errsCount' = IF mismatch THEN errsCount + 1 ELSE errsCount
           /\ ret' = [ret EXCEPT ![c] =
                        [RetOf(c, IF fatal THEN <<>> ELSE persFeed,
                                  IF fatal THEN "nofeed" ELSE "nil")
                           EXCEPT !.combined = persFeed, !.errs = done[c].errs]]
           /\ pc' = [pc EXCEPT ![c] = "idle"]
           /\ req' = [req EXCEPT ![c] = NoReq]
           /\ loc' = [loc EXCEPT ![c] = InitLoc]
           /\ feeds' = IF pc[c] = "rf_return"
                       THEN FeedsAfterAppend(req[c].userId, loc[c].offset, loc[c].rfRet)
                       ELSE feeds
    /\ UNCHANGED <<pool, offsets, numExceed, upd, histVars, nCalls, nSets>>

\* ---------------------------------------------------------- specifications
\* The user the requests of a one-user specification are for.
OneUser == {1}

\* The store's specifications never read the pool: the golden one.
InitStore == Init /\ pool = PoolOf(MaxPool)

SetFeedStep(budget) ==
    \/ \E userId \in OneUser, items \in FeedInputs :
          nSets < budget /\ SetFeedBegin(userId, items)
    \/ SetFeedWrite
    \/ SetFeedStore

\* The service: caller 1's RetrievFeed requests, one after the other, while
\* SetFeed runs in a goroutine of its own.
Next ==
    \/ \E userId \in OneUser, size \in Sizes :
          nCalls < MaxCalls /\ RetrievFeedCall(1, userId, size)
    \/ GnfLoad(1)
    \/ GnfExceed(1)
    \/ GnfFeeds(1)
    \/ GnfFeedsRace(1)
    \/ MapRaceCrash(1)
    \/ GnfStore(1)
    \/ Blend(1)
    \/ RfInit(1)
    \/ \E idx \in 1..MaxPool : RfIter(1, idx)
    \/ RfExit(1)
    \/ Validate(1)
    \/ SetFeedStep(MaxServiceSets)

Spec == Init /\ [][Next]_vars

\* The store: concurrent GetNextFeed calls, and SetFeed.
NextStore ==
    \/ \E c \in Callers, userId \in OneUser, size \in Sizes :
          nCalls < MaxCalls /\ NextFeedCall(c, userId, size)
    \/ \E c \in Callers : GnfLoad(c)
    \/ \E c \in Callers : GnfExceed(c)
    \/ \E c \in Callers : GnfFeeds(c)
    \/ \E c \in Callers : GnfFeedsRace(c)
    \/ \E c \in Callers : MapRaceCrash(c)
    \/ \E c \in Callers : GnfStore(c)
    \/ \E c \in Callers : NextFeedReturn(c)
    \/ SetFeedStep(MaxSets)

SpecStore == InitStore /\ [][NextStore]_vars

\* The store, one caller: sequential GetNextFeed and SetFeed calls.
NextSeq ==
    \/ \E userId \in OneUser, size \in Sizes :
          nCalls < MaxSeqCalls /\ upd.pc = "idle" /\ NextFeedCall(1, userId, size)
    \/ GnfLoad(1)
    \/ GnfExceed(1)
    \/ GnfFeeds(1)
    \/ GnfStore(1)
    \/ NextFeedReturn(1)
    \/ \E userId \in OneUser, items \in FeedInputs :
          nSets < MaxSets /\ pc[1] = "idle" /\ SetFeedBegin(userId, items)
    \/ SetFeedWrite
    \/ SetFeedStore

SpecSeq == InitStore /\ [][NextSeq]_vars

\* The running server: NewApp has stored the feeds (app.go calls UpdateFeed
\* before it serves) and no SetFeed follows.
InitServe ==
    /\ pool = PoolOf(MaxPool)
    /\ \E items \in FeedInputs : feeds = [u \in OneUser |-> items]
    /\ offsets = [u \in OneUser |-> 0]
    /\ numExceed = 0
    /\ errsCount = 0
    /\ pc = [c \in Callers |-> "idle"]
    /\ req = [c \in Callers |-> NoReq]
    /\ loc = [c \in Callers |-> InitLoc]
    /\ upd = IdleUpd
    /\ ret = [c \in Callers |-> NoRet]
    /\ concat = [u \in Users |-> <<>>]
    /\ sumSizes = [u \in Users |-> 0]
    /\ dirty = [u \in Users |-> FALSE]
    /\ started = [u \in Users |-> FALSE]
    /\ nCalls = 0
    /\ nSets = 0

\* The running server's store: concurrent GetNextFeed calls for one user.
NextServe ==
    \/ \E c \in Callers, userId \in OneUser, size \in Sizes :
          nCalls < MaxServeCalls /\ NextFeedCall(c, userId, size)
    \/ \E c \in Callers : GnfLoad(c)
    \/ \E c \in Callers : GnfExceed(c)
    \/ \E c \in Callers : GnfFeeds(c)
    \/ \E c \in Callers : GnfStore(c)
    \/ \E c \in Callers : NextFeedReturn(c)

SpecServe == InitServe /\ [][NextServe]_vars

\* Two users: caller c serves user c, so that no two GetNextFeed calls are for
\* one user, while SetFeed runs for either user.
NextUsers ==
    \/ \E c \in Callers, size \in Sizes :
          nCalls < MaxCalls /\ NextFeedCall(c, c, size)
    \/ \E c \in Callers : GnfLoad(c)
    \/ \E c \in Callers : GnfExceed(c)
    \/ \E c \in Callers : GnfFeeds(c)
    \/ \E c \in Callers : GnfFeedsRace(c)
    \/ \E c \in Callers : MapRaceCrash(c)
    \/ \E c \in Callers : GnfStore(c)
    \/ \E c \in Callers : NextFeedReturn(c)
    \/ \E userId \in Users, items \in FeedInputs :
          nSets < MaxSets /\ SetFeedBegin(userId, items)
    \/ SetFeedWrite
    \/ SetFeedStore

SpecUsers == InitStore /\ [][NextUsers]_vars

\* The store and its counter, one caller: sequential GetNextFeed,
\* GetPercentileExceed and SetFeed calls.
NextExceed ==
    \/ \E userId \in OneUser, size \in Sizes :
          nCalls < MaxSeqCalls /\ upd.pc = "idle" /\ NextFeedCall(1, userId, size)
    \/ GnfLoad(1)
    \/ GnfExceed(1)
    \/ GnfFeeds(1)
    \/ GnfStore(1)
    \/ NextFeedReturn(1)
    \/ nCalls < MaxSeqCalls /\ upd.pc = "idle" /\ PercentileCall(1)
    \/ GpeCount(1)
    \/ GpeFraction(1)
    \/ \E userId \in Users, items \in FeedInputs :
          nSets < MaxSets /\ pc[1] = "idle" /\ SetFeedBegin(userId, items)
    \/ SetFeedWrite
    \/ SetFeedStore

SpecExceed == InitStore /\ [][NextExceed]_vars

\* The running server, two users: NewApp has stored a feed for each, caller c
\* serves user c, and no SetFeed follows.
InitPerUser ==
    /\ pool = PoolOf(MaxPool)
    /\ feeds \in [Users -> FeedInputs]
    /\ offsets = [u \in Users |-> 0]
    /\ numExceed = 0
    /\ errsCount = 0
    /\ pc = [c \in Callers |-> "idle"]
    /\ req = [c \in Callers |-> NoReq]
    /\ loc = [c \in Callers |-> InitLoc]
    /\ upd = IdleUpd
    /\ ret = [c \in Callers |-> NoRet]
    /\ concat = [u \in Users |-> <<>>]
    /\ sumSizes = [u \in Users |-> 0]
    /\ dirty = [u \in Users |-> FALSE]
    /\ started = [u \in Users |-> FALSE]
    /\ nCalls = 0
    /\ nSets = 0

NextPerUser ==
    \/ \E c \in Callers, size \in Sizes :
          nCalls < MaxServeCalls /\ NextFeedCall(c, c, size)
    \/ \E c \in Callers : GnfLoad(c)
    \/ \E c \in Callers : GnfExceed(c)
    \/ \E c \in Callers : GnfFeeds(c)
    \/ \E c \in Callers : GnfStore(c)
    \/ \E c \in Callers : NextFeedReturn(c)

SpecPerUser == InitPerUser /\ [][NextPerUser]_vars

\* The pool: RandomFeed alone, called once by caller 1 on every pool, size and
\* excludeItems.
InitRandom ==
    /\ pool \in Pools
    /\ feeds = <<>>
    /\ offsets = <<>>
    /\ numExceed = 0
    /\ errsCount = 0
    /\ \E size \in Sizes, excludeItems \in ExcludeInputs :
          /\ req = [c \in Callers |->
                      IF c = 1 THEN [op |-> "random", userId |-> 0, size |-> size,
                                     asked |-> size, excludeItems |-> excludeItems]
                      ELSE NoReq]
          /\ loc = [c \in Callers |->
                      IF c = 1 THEN [InitLoc EXCEPT !.rfSize = size,
                                                    !.rfExclude = excludeItems]
                      ELSE InitLoc]
    /\ pc = [c \in Callers |-> IF c = 1 THEN "rf_init" ELSE "idle"]
    /\ upd = IdleUpd
    /\ ret = [c \in Callers |-> NoRet]
    /\ concat = [u \in Users |-> <<>>]
    /\ sumSizes = [u \in Users |-> 0]
    /\ dirty = [u \in Users |-> FALSE]
    /\ started = [u \in Users |-> FALSE]
    /\ nCalls = 1
    /\ nSets = 0

NextRandom ==
    \/ RfInit(1)
    \/ \E idx \in 1..MaxPool : RfIter(1, idx)
    \/ RfExit(1)
    \/ RandomFeedReturn(1)

SpecRandom == InitRandom /\ [][NextRandom]_vars


\* ------------------------------------------------------------------ claims
\* A completed GetNextFeed call (direct, or the one a RetrievFeed made) that
\* returned a slice of the user's current feed and did not overlap a SetFeed.
Served(c) == ret[c].op \in {"nextFeed", "retrieve"} /\ ret[c].ranged /\ ~ret[c].taint

\* The index ranges lo..hi-1 of two results share no index.
Disjoint(r1, r2) == r1.lo = r1.hi \/ r2.lo = r2.hi \/ r1.hi <= r2.lo \/ r2.hi <= r1.lo

\* No GetNextFeed call and no SetFeed is running for user u.
Quiet(u) == ~Setting(u) /\ \A c \in Callers : ~(InGNF(c) /\ req[c].userId = u)

\* C1: under any interleaving of concurrent nextFeed calls for one user, with no
\* setFeed in between, the index ranges of the slices returned are pairwise
\* disjoint: no item is delivered to two callers.
C1_DisjointRanges ==
    \A c1, c2 \in Callers :
        (c1 # c2 /\ Served(c1) /\ Served(c2) /\ ret[c1].userId = ret[c2].userId)
            => Disjoint(ret[c1], ret[c2])

\* C2: no cursor update is lost: once the nextFeed calls for a user have
\* completed, with no setFeed in between, the cursor is its value at setFeed (0)
\* plus the lengths of all the slices returned since.
C2_NoLostUpdate ==
    \A u \in Users :
        (u \in DOMAIN offsets /\ Quiet(u) /\ ~dirty[u])
            => offsets[u] = Len(concat[u])


\* C3: sequential nextFeed calls for a user with a stored feed, starting from
\* cursor 0, with sizes summing to TotalFeedSize, return slices whose
\* concatenation in call order is exactly the stored feed.
C3_SequentialPartition ==
    \A u \in Users :
        (u \in DOMAIN feeds /\ Quiet(u) /\ ~dirty[u] /\ sumSizes[u] = TotalFeedSize)
            => concat[u] = feeds[u]

\* Several calls have delivered a whole feed, the last one its end.
C3_Witness ==
    /\ 1 \in DOMAIN feeds /\ Quiet(1) /\ sumSizes[1] = TotalFeedSize
    /\ concat[1] = feeds[1]
    /\ ret[1].op = "nextFeed" /\ ret[1].lo > 0 /\ ret[1].hi = TotalFeedSize
    /\ ret[1].hi - ret[1].lo < TotalFeedSize - 1


\* The pool items RandomFeed may return when handed excludeItems.
Eligible(excludeItems) == Range(pool) \ Range(excludeItems)

\* No id occurs twice in s.
Distinct(s) == \A j, k \in 1..Len(s) : j # k => s[j] # s[k]

\* C5: every item in the sequence randomFeed returns is a member of the pool,
\* does not appear in excludeItems, and occurs at most once in the result.
C5_FromPoolNotExcludedDistinct ==
    \A c \in Callers :
        ret[c].op = "random"
            => /\ Range(ret[c].items) \subseteq Eligible(ret[c].excludeItems)
               /\ Distinct(ret[c].items)

\* C6: whenever the sampling loop of randomFeed takes another iteration, at
\* least one pool item is still eligible, so that it terminates whatever the
\* random draws.
C6_IterationHasEligible ==
    \A c \in Callers :
        (pc[c] = "rf_loop" /\ LoopCond(loc[c].i, loc[c].rfSize, loc[c].excluded))
            => Range(pool) \ loc[c].excluded # {}

\* C7: randomFeed returns exactly min(size, E) items, E the number of pool items
\* not in excludeItems.
C7_MinOfSizeAndEligible ==
    \A c \in Callers :
        ret[c].op = "random"
            => Len(ret[c].items)
                 = Min(ret[c].size, Cardinality(Eligible(ret[c].excludeItems)))


\* A RetrievFeed call has returned to caller c.
Retrieved(c) == ret[c].op = "retrieve"

\* The most a RetrievFeed call can blend: its primary slice and every pool item
\* eligible as fallback.
Achievable(c) == Len(ret[c].primary) + Cardinality(Eligible(ret[c].primary))

\* C4: whenever the primary slice plus the pool items eligible as fallback are
\* at least the requested size (the default, for a request of size zero),
\* retrieveFeed returns a sequence of exactly the requested size.
C4_ExactSize ==
    \A c \in Callers :
        (Retrieved(c) /\ Achievable(c) >= ret[c].size)
            => ret[c].err = "nil" /\ Len(ret[c].items) = ret[c].size

\* A request was answered with a primary slice and a fallback draw, blended.
C4_Witness ==
    /\ Retrieved(1) /\ Achievable(1) >= ret[1].size
    /\ ret[1].primary # <<>> /\ ret[1].fallback # <<>>
    /\ Len(ret[1].items) = ret[1].size

\* C8: when the primary slice plus all eligible fallback items are fewer than
\* the requested size, and not zero, retrieveFeed returns the primary items
\* followed by every eligible fallback item, shorter than requested, and
\* records a size-mismatch anomaly.
C8_ShortResultRecorded ==
    \A c \in Callers :
        (Retrieved(c) /\ 0 < Achievable(c) /\ Achievable(c) < ret[c].size)
            => /\ ret[c].err = "nil"
               /\ Len(ret[c].items) = Achievable(c)
               /\ SubSeq(ret[c].items, 1, Len(ret[c].primary)) = ret[c].primary
               /\ Range(SubSeq(ret[c].items, Len(ret[c].primary) + 1, Len(ret[c].items)))
                    = Eligible(ret[c].primary)
               /\ \E j \in 1..Len(ret[c].errs) : ret[c].errs[j] = "mismatch"

\* C9: retrieveFeed fails with NoFeedAvailable if and only if the combined
\* primary-plus-fallback sequence is empty; in every other case it returns the
\* combined sequence without an error.
C9_FailsIffEmpty ==
    \A c \in Callers :
        Retrieved(c)
            => /\ ret[c].combined = ret[c].primary \o ret[c].fallback
               /\ ret[c].err \in {"nil", "nofeed"}
               /\ ret[c].err = "nofeed" <=> ret[c].combined = <<>>
               /\ ret[c].err = "nil" => ret[c].items = ret[c].combined

\* A request for a user whose feed is used up failed: the pool had nothing.
C9_Witness ==
    /\ Retrieved(1) /\ ret[1].err = "nofeed"
    /\ ret[1].gnfErr = "nil" /\ ret[1].lo = TotalFeedSize

\* C10: for a user with no stored feed and a requested size n (after
\* defaulting) not larger than the pool, retrieveFeed returns without error
\* exactly n distinct items, all from the pool, and records exactly one
\* anomaly, the store's NotFound.
C10_NoFeedAllFallback ==
    \A c \in Callers :
        (Retrieved(c) /\ ret[c].gnfErr = "notfound" /\ ret[c].size <= Len(pool))
            => /\ ret[c].err = "nil"
               /\ Len(ret[c].items) = ret[c].size
               /\ Distinct(ret[c].items)
               /\ Range(ret[c].items) \subseteq Range(pool)
               /\ ret[c].errs = <<"notfound">>

\* A request of size zero for a user without a feed got the default number of
\* items, the whole pool.
C10_Witness ==
    /\ Retrieved(1) /\ ret[1].gnfErr = "notfound"
    /\ ret[1].asked = 0 /\ ret[1].size = Len(pool)
    /\ Range(ret[1].items) = Range(pool)


\* C11: once a user's cursor has reached TotalFeedSize, every nextFeed call
\* that starts for the user before the next setFeed, whatever its size, returns
\* an empty sequence and no error, and leaves the cursor where it is.
C11_ExhaustedStaysEmpty ==
    \A c \in Callers :
        (ret[c].op = "nextFeed" /\ ~ret[c].taint /\ ret[c].cursor = TotalFeedSize)
            => /\ ret[c].items = <<>>
               /\ ret[c].err = "nil"
               /\ ~ret[c].stored

\* C12: every nextFeed call made for a user whose cursor has already reached
\* TotalFeedSize returns an empty sequence and increments ExceedCounter by one.
C12_ExhaustedCallCounted ==
    \A c \in Callers :
        (ret[c].op = "nextFeed" /\ ~ret[c].taint /\ ret[c].cursor = TotalFeedSize)
            => ret[c].items = <<>> /\ ret[c].adds = 1

\* C13: for a user with a stored feed and a cursor offset below TotalFeedSize,
\* a sequential nextFeed(u, size) returns exactly
\* items[offset : min(offset + size, TotalFeedSize)], never more than size
\* items, sets the cursor to that upper bound, and increments ExceedCounter by
\* one if the upper bound is TotalFeedSize and by zero otherwise.
C13_SliceCursorExceed ==
    \A c \in Callers :
        (/\ ret[c].op = "nextFeed" /\ pc[c] = "idle"
         /\ ret[c].userId \in DOMAIN feeds
         /\ ret[c].cursor < TotalFeedSize)
            => LET u == ret[c].userId
                   offset == ret[c].cursor
                   upper == IF offset + ret[c].size < TotalFeedSize
                            THEN offset + ret[c].size ELSE TotalFeedSize
               IN  /\ ret[c].err = "nil"
                   /\ ret[c].items = [j \in 1..(upper - offset) |-> feeds[u][offset + j]]
                   /\ Len(ret[c].items) <= ret[c].size
                   /\ offsets[u] = upper
                   /\ ret[c].adds = IF upper = TotalFeedSize THEN 1 ELSE 0

\* A call that started in the middle of the feed asked for more than was left:
\* it returned the rest, and counted.
C13_Witness ==
    /\ ret[1].op = "nextFeed" /\ pc[1] = "idle" /\ 1 \in DOMAIN feeds
    /\ ret[1].cursor > 0 /\ ret[1].cursor < TotalFeedSize
    /\ ret[1].cursor + ret[1].size > TotalFeedSize
    /\ Len(ret[1].items) = TotalFeedSize - ret[1].cursor
    /\ offsets[1] = TotalFeedSize /\ ret[1].adds = 1

\* C14: setFeed(u, items) replaces u's feed and resets u's pagination: the
\* first nextFeed(u, n) call to start after setFeed has returned gets the first
\* min(n, TotalFeedSize) items of the new feed, whatever the cursor was before
\* and whatever nextFeed(u) calls were in progress while setFeed ran.
C14_SetFeedResetsPagination ==
    \A c \in Callers :
        (ret[c].op = "nextFeed" /\ ret[c].first /\ ~ret[c].taint)
            => LET u == ret[c].userId
                   n == IF ret[c].size < TotalFeedSize THEN ret[c].size
                        ELSE TotalFeedSize
               IN  /\ ret[c].err = "nil"
                   /\ ret[c].items = [j \in 1..n |-> feeds[u][j]]

\* SetFeed's write of the feeds map is under way while caller c, serving
\* another user, is at its read of the map: nothing orders the two accesses.
MapAccessOverlap(c) ==
    Writing /\ pc[c] = "gnf_feeds" /\ req[c].userId # upd.userId

\* What a GetNextFeed call returns when
\* nothing disturbs it (r.cursor is the cursor it found).
Undisturbed(r) ==
    IF r.userId \notin DOMAIN feeds THEN r.err = "notfound" /\ r.items = <<>>
    ELSE LET upper == IF r.cursor + r.size < TotalFeedSize
                      THEN r.cursor + r.size ELSE TotalFeedSize
         IN  /\ r.err = "nil"
             /\ r.items = [j \in 1..(upper - r.cursor) |-> feeds[r.userId][r.cursor + j]]

\* C15: setFeed for one user is safe to run concurrently with nextFeed for
\* other users: no state is reached where a write of the user-to-feed mapping
\* overlaps an unsynchronized read of it, the process is not ended, and the
\* other users' calls return what they return without the setFeed.
C15_OtherUsersSafe ==
    /\ ~Crashed
    /\ \A c \in Callers : ~MapAccessOverlap(c)
    /\ \A c \in Callers :
          (ret[c].op = "nextFeed" /\ ~ret[c].taint) => Undisturbed(ret[c])

\* C16: in every sequence retrieveFeed returns, all primary items come before
\* all fallback items, and the primary items are in the order of the user's
\* stored feed: the result is the primary slice followed by the fallback draw.
C16_PrimaryThenFallback ==
    \A c \in Callers :
        (Retrieved(c) /\ ret[c].err = "nil")
            => /\ Len(ret[c].items) = Len(ret[c].primary) + Len(ret[c].fallback)
               /\ \A j \in 1..Len(ret[c].primary) : ret[c].items[j] = ret[c].primary[j]
               /\ \A j \in 1..Len(ret[c].fallback) :
                     ret[c].items[Len(ret[c].primary) + j] = ret[c].fallback[j]
               /\ (~ret[c].taint /\ ret[c].primary # <<>>)
                     => \A j \in 1..Len(ret[c].primary) :
                           ret[c].primary[j] = feeds[ret[c].userId][ret[c].lo + j]

\* A request got two different items of the middle of the feed, in the feed's
\* order, and a fallback draw behind them.
C16_Witness ==
    /\ Retrieved(1) /\ ret[1].err = "nil" /\ ~ret[1].taint
    /\ ret[1].lo > 0 /\ Len(ret[1].primary) = 2
    /\ ret[1].primary[1] # ret[1].primary[2]
    /\ ret[1].fallback # <<>>
    /\ ret[1].items[Len(ret[1].items)] \in Range(pool)

\* C17: percentileExceed returns the current ExceedCounter as count and, as
\* fraction, count divided by the number of users with a stored feed; when no
\* user has a stored feed the fraction is 0 and nothing is divided by zero.
C17_CountAndFraction ==
    \A c \in Callers :
        ret[c].op = "percentile"
            => LET g == ret[c].gpe IN
               /\ g.count = g.counter
               /\ g.fraction.kind = "finite"
               /\ g.fraction.den # 0
               /\ IF g.users = 0 THEN g.fraction.num = 0
                  ELSE g.fraction.num * g.users = g.count * g.fraction.den

\* C18: a user's cursor never decreases between two setFeed calls for the
\* user: every step other than setFeed's reset, concurrent nextFeed calls for
\* the user included, leaves the cursor at or above its previous value, and
\* within 0..TotalFeedSize.
C18_CursorNeverDecreases ==
    [][\A u \in DOMAIN offsets :
          ~(upd.pc = "store" /\ upd.userId = u)
              => /\ u \in DOMAIN offsets'
                 /\ offsets'[u] >= offsets[u]
                 /\ offsets'[u] \in 0..TotalFeedSize]_vars

\* C19: a nextFeed call for a user with no stored feed fails with NotFound,
\* whatever the size, and leaves the store as it is: no cursor entry is created
\* for the user and ExceedCounter keeps its value.
C19_NotFoundLeavesStore ==
    \A c \in Callers :
        (ret[c].op = "nextFeed" /\ pc[c] = "idle" /\ ret[c].userId \notin DOMAIN feeds)
            => /\ ret[c].err = "notfound"
               /\ ret[c].items = <<>>
               /\ ret[c].userId \notin DOMAIN offsets
               /\ ~ret[c].stored
               /\ ret[c].adds = 0

StepOf(c, u) == req[c].userId = u /\ InGNF(c) /\ pc'[c] # pc[c]

\* C21: users' cursors are independent: under any interleaving of nextFeed
\* calls for different users, a call for user A changes no feed and no cursor
\* but A's, and every call returns the slice it returns when the other users'
\* calls do not run: the items from the user's cursor on, the cursor being what
\* the user's own calls have delivered.
C21_CursorsIndependent ==
    /\ [](\A c \in Callers : ret[c].op = "nextFeed" => Undisturbed(ret[c]))
    /\ [](\A u \in Users : Quiet(u) => offsets[u] = Len(concat[u]))
    /\ [][/\ feeds' = feeds
          /\ \A u \in Users :
                offsets'[u] # offsets[u] => \E c \in Callers : StepOf(c, u)]_vars

\* While a call for user 2 is about to store its cursor, user 1 has been
\* served from the middle of the feed: the two cursors differ.
C21_Witness ==
    /\ ret[1].op = "nextFeed" /\ ret[1].lo > 0 /\ ret[1].items # <<>>
    /\ pc[2] = "gnf_store" /\ req[2].userId = 2 /\ loc[2].lastItem > 0
    /\ offsets[1] > 0 /\ offsets[2] = 0

====
